---- MODULE Spec2Model ----
(***************************************************************************)
(* Model of the channel resolution layer of coniql_strawberry/app.py:      *)
(* the deferred resolution cell (DeferredChannel / GetChannel /            *)
(* SubscribeChannel), the batch mutation put_channel and the subscription  *)
(* relay subscribe_channel, over a plugin registry (PluginStore) whose     *)
(* code lives in plugin.py and is modelled from the specification.         *)
(***************************************************************************)
EXTENDS Integers, Sequences, FiniteSets, TLC

\* Python's Optional: None is the empty tuple, a present value x is <<x>>
None == <<>>

Some(x) == <<x>>

\* what a call of DeferredChannel.get_channel gave its caller
\* (path: the place get_channel returned from: the first check ("fast"), its
\* own fetch made without waiting ("fetch") or after waiting for the lock
\* ("queued-fetch"), or the second check made with the lock held ("lock"))
NoResult == [status |-> "none", channel |-> None, error |-> "", path |-> ""]

Returned(channel, path) ==
    [status |-> "returned", channel |-> channel, error |-> "", path |-> path]

Raised(err) == [status |-> "raised", channel |-> None, error |-> err, path |-> ""]

\* a call that has queued on the lock of the cell
Queued == [status |-> "none", channel |-> None, error |-> "", path |-> "queued"]

(***************************************************************************)
(* Bounds of the model.                                                    *)
(***************************************************************************)
NCallers == 2      \* tasks that call DeferredChannel.get_channel()
MaxCells == 1      \* cells made by the get_channel resolver in one run
MaxEmit  == 2      \* snapshots the plugin stream emits to one subscription
MaxIds   == 2      \* identifiers in one put_channel batch
MaxVals  == 2      \* values in one put_channel batch

Callers == 1..NCallers

(***************************************************************************)
(* Small helpers on sequences.                                             *)
(***************************************************************************)
SeqsUpTo(S, n) == UNION {[1..k -> S] : k \in 0..n}

Min2(a, b) == IF a < b THEN a ELSE b

(***************************************************************************)
(* The plugin registry.  Strings are sequences of tokens; the transport    *)
(* delimiter is one token.                                                 *)
(***************************************************************************)
Delim == ":"

DefaultTransport == <<"ca">>

\* make_context: the three registered transports, "ca" being the default
store_plugins ==
    (<<"ssim">> :> "SimPlugin") @@ (<<"pva">> :> "PVAPlugin") @@ (<<"ca">> :> "CAPlugin")

\* position of the first delimiter of a string, 0 when it has none
DelimPos(s) ==
    IF \E i \in 1..Len(s) : s[i] = Delim
    THEN CHOOSE i \in 1..Len(s) : s[i] = Delim /\ \A j \in 1..(i - 1) : s[j] # Delim
    ELSE 0

\* PluginStore.transport_pv: <<transport, bare name>>, the default transport
\* when the string has no prefix
transport_pv(pv) ==
    LET p == DelimPos(pv)
    IN  IF p = 0 THEN <<DefaultTransport, pv>>
        ELSE <<SubSeq(pv, 1, p - 1), SubSeq(pv, p + 1, Len(pv))>>

ChannelConfig(name, read_pv, write_pv) ==
    [name |-> name, read_pv |-> read_pv, write_pv |-> write_pv]

\* Plugin.getChannelConfig: the configuration of the channels of the model
getChannelConfig(plugin, bare) ==
    CASE plugin = "CAPlugin" /\ bare = <<"A">> ->
            ChannelConfig(bare, Some(<<"ca", ":", "A">>), Some(<<"ca", ":", "A">>))
      [] plugin = "CAPlugin" /\ bare = <<"W">> ->
            ChannelConfig(bare, None, Some(<<"ca", ":", "Wset">>))
      [] plugin = "CAPlugin" /\ bare = <<"RO">> ->
            ChannelConfig(bare, Some(<<"RO">>), None)
      [] plugin = "PVAPlugin" /\ bare = <<"B">> ->
            ChannelConfig(bare, Some(<<"B">>), Some(<<"B">>))

\* PluginStore.plugin_config_id: (plugin, config, bare name) of an identifier
plugin_config_id(id) ==
    LET tp     == transport_pv(id)
        plugin == store_plugins[tp[1]]
    IN  [plugin |-> plugin, config |-> getChannelConfig(plugin, tp[2]), id |-> tp[2]]

\* the plugin call that plugin_config_id makes to look the configuration up
ConfigCall(id) ==
    [op |-> "get_channel_config", plugin |-> plugin_config_id(id).plugin,
     pv |-> plugin_config_id(id).id]

\* the channel identifiers the operations are called with
Ids == {<<"A">>, <<"ca", ":", "W">>, <<"ca", ":", "RO">>, <<"pva", ":", "B">>}

\* the identifiers the get_channel resolver is called with
QueryIds == {<<"A">>, <<"ca", ":", "W">>}

Timeouts == {1, 5}

\* the values a channel takes on the plugin side
LiveValues == {0, 1}

\* Query.getChannel: `timeout: float = 5.0`
DefaultTimeout == 5

\* Python's `a or b` on optional strings
Or(a, b) == IF a # None /\ a[1] # <<>> THEN a ELSE b

(***************************************************************************)
(* State.                                                                  *)
(***************************************************************************)
VARIABLES
    cells,    \* the DeferredChannel objects made so far
    pc,       \* per caller: where it is in DeferredChannel.get_channel
    tc,       \* per caller: the cell it is calling (0: none yet)
    res,      \* per caller: what its last call returned or raised
    live,     \* the live value of the channels on the plugin side
    nsnap,    \* Channel snapshots constructed so far (their identity)
    plog,     \* the calls that have reached the plugins, in order
    put,      \* the put_channel invocation
    sub       \* the subscribe_channel generator and its plugin stream

vars == <<cells, pc, tc, res, live, nsnap, plog, put, sub>>

\* GetChannel.__init__
GetChannel(channel_id, timeout) ==
    LET r == plugin_config_id(channel_id)
    IN  [kind |-> "GetChannel", id |-> r.id, plugin |-> r.plugin, config |-> r.config,
         pv |-> transport_pv(Or(r.config.read_pv, r.config.write_pv)[1])[2],
         timeout |-> timeout, channel |-> None, holder |-> 0, waiters |-> <<>>]

\* SubscribeChannel.__init__
SubscribeChannel(channel_id, channel) ==
    [kind |-> "SubscribeChannel", id |-> channel_id, plugin |-> "",
     config |-> ChannelConfig(<<>>, None, None), pv |-> <<>>, timeout |-> 0,
     channel |-> Some(channel), holder |-> 0, waiters |-> <<>>]

\* the Channel a plugin builds for a pv at the current live value
Channel(pv, value, serial) == [pv |-> pv, value |-> value, serial |-> serial]

PutIdle == [pc |-> "idle", ids |-> <<>>, values |-> <<>>, timeout |-> 0,
            error |-> "", result |-> <<>>]

SubIdle == [pc |-> "none", id |-> <<>>, pv |-> <<>>, plugin |-> "",
            stream |-> "none", emitted |-> 0, yielded |-> <<>>, closes |-> 0]

Init ==
    /\ cells = <<>>
    /\ pc = [c \in Callers |-> "idle"]
    /\ tc = [c \in Callers |-> 0]
    /\ res = [c \in Callers |-> NoResult]
    /\ live = 0
    /\ nsnap = 0
    /\ plog = <<>>
    /\ put = PutIdle
    /\ sub = SubIdle

(***************************************************************************)
(* The get_channel resolver and DeferredChannel.get_channel.               *)
(***************************************************************************)
\* resolver get_channel(id, timeout, ctx): a new GetChannel cell
Resolve(id, timeout) ==
    /\ Len(cells) < MaxCells
    /\ cells' = Append(cells, GetChannel(id, timeout))
    /\ plog' = Append(plog, ConfigCall(id))
    /\ UNCHANGED <<pc, tc, res, live, nsnap, put, sub>>

\* the call populate_channel makes: plugin.get_channel(pv, timeout, config)
FetchCall(k) ==
    [op |-> "get_channel", plugin |-> cells[k].plugin, pv |-> cells[k].pv,
     timeout |-> cells[k].timeout, cell |-> k]

\* `if self.channel is None` as first made, without the lock
FirstCheck(cell) == cell.channel = None

LockHeldIgnored(cell) == cell.waiters = <<>>

NoLock(cell) == TRUE

\* `async with self.lock` does not suspend: asyncio.Lock.acquire takes a lock
\* that is free and has no waiter queued
LockFree(cell) == cell.holder = 0 /\ cell.waiters = <<>>

RecheckSkipped(cell) == TRUE

\* `if self.channel is None` as made again with the lock held
Recheck(cell) == cell.channel = None

\* get_channel up to its first suspension: the fast path returns the cached
\* channel; with the lock free the caller takes it, re-checks and starts the
\* fetch; otherwise it queues on the lock
Call(c, k) ==
    /\ pc[c] = "idle"
    /\ k \in 1..Len(cells)
    /\ tc' = [tc EXCEPT ![c] = k]
    /\ IF ~FirstCheck(cells[k])
       THEN /\ pc' = [pc EXCEPT ![c] = "returned"]
            /\ res' = [res EXCEPT ![c] = Returned(cells[k].channel, "fast")]
            /\ UNCHANGED <<cells, plog>>
       ELSE IF LockFree(cells[k])
       THEN IF Recheck(cells[k])
            THEN /\ pc' = [pc EXCEPT ![c] = "fetching"]
                 /\ res' = [res EXCEPT ![c] = NoResult]
                 /\ cells' = [cells EXCEPT ![k].holder = c]
                 /\ plog' = Append(plog, FetchCall(k))
            ELSE /\ pc' = [pc EXCEPT ![c] = "returned"]
                 /\ res' = [res EXCEPT ![c] = Returned(cells[k].channel, "lock")]
                 /\ UNCHANGED <<cells, plog>>
       ELSE /\ pc' = [pc EXCEPT ![c] = "waiting"]
            /\ res' = [res EXCEPT ![c] = Queued]
            /\ cells' = [cells EXCEPT ![k].waiters = Append(@, c)]
            /\ UNCHANGED plog
    /\ UNCHANGED <<live, nsnap, put, sub>>

\* the stored value after `self.channel = await self.populate_channel()`
Populated(cell, channel) == [cell EXCEPT !.channel = Some(channel), !.holder = 0]

\* the fetch returns: the cell is populated, the lock released, the channel returned
FetchOk(c) ==
    /\ pc[c] = "fetching"
    /\ LET k == tc[c]
           ch == Channel(cells[k].pv, live, nsnap + 1)
       IN  /\ cells' = [cells EXCEPT ![k] = Populated(@, ch)]
           /\ res' = [res EXCEPT ![c] = Returned(cells'[k].channel,
                                   IF res[c] = Queued THEN "queued-fetch" ELSE "fetch")]
    /\ nsnap' = nsnap + 1
    /\ pc' = [pc EXCEPT ![c] = "returned"]
    /\ UNCHANGED <<tc, live, plog, put, sub>>

FailedLocked(cell) == cell

FailedCached(cell) ==
    [cell EXCEPT !.holder = 0, !.channel = Some(Channel(cell.pv, 0 - 1, 0))]

\* the cell after the fetch raised inside `async with self.lock`
Failed(cell) == [cell EXCEPT !.holder = 0]

FetchFailShared(c, err) ==
    /\ pc[c] = "fetching"
    /\ cells' = [cells EXCEPT ![tc[c]] = [@ EXCEPT !.holder = 0, !.waiters = <<>>]]
    /\ pc' = [d \in Callers |->
                IF d = c \/ (pc[d] = "waiting" /\ tc[d] = tc[c]) THEN "raised" ELSE pc[d]]
    /\ res' = [d \in Callers |->
                IF d = c \/ (pc[d] = "waiting" /\ tc[d] = tc[c]) THEN Raised(err) ELSE res[d]]
    /\ UNCHANGED <<tc, live, nsnap, plog, put, sub>>

FetchErrors == {"Timeout"}

\* the fetch raises (Timeout, ConnectionError): the lock is released on the way out
FetchFail(c, err) ==
    /\ pc[c] = "fetching"
    /\ cells' = [cells EXCEPT ![tc[c]] = Failed(@)]
    /\ pc' = [pc EXCEPT ![c] = "raised"]
    /\ res' = [res EXCEPT ![c] = Raised(err)]
    /\ UNCHANGED <<tc, live, nsnap, plog, put, sub>>

\* the lock is free and the first waiter takes it: it re-checks the cell, and
\* returns the channel another caller stored or starts its own fetch
Wake(c) ==
    /\ pc[c] = "waiting"
    /\ LET k == tc[c]
       IN  /\ cells[k].holder = 0
           /\ cells[k].waiters # <<>>
           /\ Head(cells[k].waiters) = c
           /\ IF Recheck(cells[k])
              THEN /\ cells' = [cells EXCEPT ![k].waiters = Tail(@), ![k].holder = c]
                   /\ pc' = [pc EXCEPT ![c] = "fetching"]
                   /\ plog' = Append(plog, FetchCall(k))
                   /\ UNCHANGED res
              ELSE /\ cells' = [cells EXCEPT ![k].waiters = Tail(@)]
                   /\ pc' = [pc EXCEPT ![c] = "returned"]
                   /\ res' = [res EXCEPT ![c] = Returned(cells[k].channel, "lock")]
                   /\ UNCHANGED plog
    /\ UNCHANGED <<tc, live, nsnap, put, sub>>

RemoveFirst(s, x) ==
    LET i == CHOOSE j \in 1..Len(s) : s[j] = x /\ \A m \in 1..(j - 1) : s[m] # x
    IN  SubSeq(s, 1, i - 1) \o SubSeq(s, i + 1, Len(s))

\* the task of a caller is cancelled at its suspension point: a fetching
\* caller leaves `async with` and releases the lock, a waiting one leaves
\* the lock's queue
Cancel(c) ==
    /\ pc[c] \in {"fetching", "waiting"}
    /\ cells' = [cells EXCEPT ![tc[c]] =
                    IF pc[c] = "fetching" THEN [@ EXCEPT !.holder = 0]
                    ELSE [@ EXCEPT !.waiters = RemoveFirst(@, c)]]
    /\ pc' = [pc EXCEPT ![c] = "cancelled"]
    /\ res' = [res EXCEPT ![c] = Raised("CancelledError")]
    /\ UNCHANGED <<tc, live, nsnap, plog, put, sub>>

\* the control system changes the live value of the channels
Push ==
    /\ live' \in LiveValues \ {live}
    /\ UNCHANGED <<cells, pc, tc, res, nsnap, plog, put, sub>>



(***************************************************************************)
(* subscribe_channel: the asynchronous generator and the plugin stream it  *)
(* iterates.                                                               *)
(***************************************************************************)
\* the call plugin.subscribe_channel(pv, config)
SubscribeCall(plugin, pv) == [op |-> "subscribe_channel", plugin |-> plugin, pv |-> pv]

\* the resolver subscribe_channel(id, ctx) is called: an asynchronous
\* generator is made, none of its body has run
Subscribe(id) ==
    /\ sub.pc = "none"
    /\ sub' = [sub EXCEPT !.pc = "created", !.id = id]
    /\ UNCHANGED <<cells, pc, tc, res, live, nsnap, plog, put>>

\* the first value is asked for: the body runs to its first suspension, the
\* identifier is resolved, the plugin stream opened and its first value awaited
SubStart ==
    /\ sub.pc = "created"
    /\ LET r == plugin_config_id(sub.id)
       IN  IF r.config.read_pv = None
           THEN /\ sub' = [sub EXCEPT !.pc = "raised", !.plugin = r.plugin]
                /\ plog' = Append(plog, ConfigCall(sub.id))
           ELSE LET pv == transport_pv(r.config.read_pv[1])[2]
                IN  /\ sub' = [sub EXCEPT !.pc = "awaiting", !.plugin = r.plugin,
                                          !.pv = pv, !.stream = "open"]
                    /\ plog' = plog \o <<ConfigCall(sub.id), SubscribeCall(r.plugin, pv)>>
    /\ UNCHANGED <<cells, pc, tc, res, live, nsnap, put>>

EmitDropped ==
    /\ sub.pc = "awaiting"
    /\ sub.emitted < MaxEmit
    /\ nsnap' = nsnap + 1
    /\ sub' = [sub EXCEPT !.emitted = @ + 1]
    /\ UNCHANGED <<cells, pc, tc, res, live, plog, put>>

\* the plugin stream emits the channel at its live value: the generator
\* yields a SubscribeChannel cell that holds it
Emit ==
    /\ sub.pc = "awaiting"
    /\ sub.emitted < MaxEmit
    /\ cells' = Append(cells, SubscribeChannel(plugin_config_id(sub.id).id,
                                               Channel(sub.pv, live, nsnap + 1)))
    /\ nsnap' = nsnap + 1
    /\ sub' = [sub EXCEPT !.pc = "yielded", !.emitted = @ + 1,
                          !.yielded = Append(@, Len(cells) + 1)]
    /\ UNCHANGED <<pc, tc, res, live, plog, put>>

\* the consumer asks for the next value: the generator resumes after `yield`
\* and awaits the plugin stream again
SubNext ==
    /\ sub.pc = "yielded"
    /\ sub' = [sub EXCEPT !.pc = "awaiting"]
    /\ UNCHANGED <<cells, pc, tc, res, live, nsnap, plog, put>>

\* the consumer closes the subscription.  Before the first value was asked
\* for, no body has run and no plugin stream exists.  While the generator
\* awaits the plugin stream, the cancellation is raised inside the stream,
\* whose cleanup runs as it unwinds.  At `yield`, GeneratorExit leaves the
\* `async for` loop, which does not close the stream it iterates: the stream
\* is left open, unreferenced.
Close ==
    /\ sub.pc \in {"created", "awaiting", "yielded"}
    /\ sub' = IF sub.pc = "awaiting"
              THEN [sub EXCEPT !.pc = "closed", !.stream = "closed", !.closes = @ + 1]
              ELSE [sub EXCEPT !.pc = "closed"]
    /\ UNCHANGED <<cells, pc, tc, res, live, nsnap, plog, put>>

\* the interpreter finalizes the unreferenced plugin stream: the event loop's
\* asynchronous generator hook closes it in a later iteration
Finalize ==
    /\ sub.pc = "closed"
    /\ sub.stream = "open"
    /\ sub' = [sub EXCEPT !.stream = "closed", !.closes = @ + 1]
    /\ UNCHANGED <<cells, pc, tc, res, live, nsnap, plog, put>>

NextSub ==
    \/ \E id \in Ids : Subscribe(id)
    \/ SubStart
    \/ Emit
    \/ SubNext
    \/ Close
    \/ Finalize
    \/ Push
    \/ \E c \in Callers, k \in 1..MaxEmit : Call(c, k)

\* one subscription and the readers of the cells it yields
SpecSub == Init /\ [][NextSub]_vars

NextCell ==
    \/ \E id \in QueryIds : Resolve(id, DefaultTimeout)
    \/ \E c \in Callers, k \in 1..MaxCells : Call(c, k)
    \/ \E c \in Callers : FetchOk(c)
    \/ \E c \in Callers, e \in FetchErrors : FetchFail(c, e)
    \/ \E c \in Callers : Wake(c)
    \/ \E c \in Callers : Cancel(c)
    \/ Push

\* callers on the cells of one operation
SpecCell == Init /\ [][NextCell]_vars

\* the plugin fetch of caller c ends: it returns or it raises
FetchEnds(c) == FetchOk(c) \/ \E e \in FetchErrors : FetchFail(c, e)

\* SpecCell with a fair event loop, which runs the waiter the lock has woken,
\* and plugin fetches that end
SpecCellFair ==
    /\ SpecCell
    /\ \A c \in Callers : WF_vars(Wake(c))
    /\ \A c \in Callers : WF_vars(FetchEnds(c))

NextRead ==
    \/ \E id \in QueryIds : Resolve(id, DefaultTimeout)
    \/ \E id \in QueryIds : Subscribe(id)
    \/ SubStart
    \/ Emit
    \/ \E c \in Callers, k \in 1..(MaxCells + 1) : Call(c, k)
    \/ \E c \in Callers : FetchOk(c)
    \/ \E c \in Callers, e \in FetchErrors : FetchFail(c, e)
    \/ \E c \in Callers : Wake(c)
    \/ Push

\* callers on the cells of a query and on the first cell of a subscription
SpecRead == Init /\ [][NextRead]_vars

(***************************************************************************)
(* put_channel: decoding of the values.                                    *)
(***************************************************************************)
\* Python's `a in b` on strings: a occurs in b as a substring
IsSubstring(a, b) ==
    \E i \in 0..(Len(b) - Len(a)) : SubSeq(b, i + 1, i + Len(a)) = a

\* value[:1]
FirstChar(value) == SubSeq(value, 1, Min2(1, Len(value)))

\* a decoded value: a Python str, a list of numbers or a numpy array
StrValue(str) == [type |-> "str", str |-> str, items |-> <<>>, dtype |-> ""]

ListValue(items) == [type |-> "list", str |-> <<>>, items |-> items, dtype |-> ""]

ArrayValue(dtype, items) == [type |-> "ndarray", str |-> <<>>, items |-> items, dtype |-> dtype]

Decoded(value) == [ok |-> TRUE, value |-> value, error |-> ""]

DecodeError(err) == [ok |-> FALSE, value |-> StrValue(<<>>), error |-> err]

Digits == ("0" :> 0) @@ ("1" :> 1) @@ ("2" :> 2)

\* json.loads on an array text: "[" number ("," number)* "]" or "[" "]"
JsonArray(text) ==
    LET n     == Len(text)
        inner == SubSeq(text, 2, n - 1)
        m     == Len(inner)
    IN  IF /\ n >= 2 /\ text[n] = "]"
           /\ (m = 0 \/ m % 2 = 1)
           /\ \A i \in 1..m : IF i % 2 = 1 THEN inner[i] \in DOMAIN Digits
                                           ELSE inner[i] = ","
        THEN Decoded(ListValue([j \in 1..((m + 1) \div 2) |-> Digits[inner[2 * j - 1]]]))
        ELSE DecodeError("JSONDecodeError")

\* str.lower on the type tags of the model
Lower(tag) ==
    CASE tag = "UINT8" -> "uint8"
      [] tag = "Uint16" -> "uint16"
      [] OTHER -> tag

\* np.dtype(name).itemsize for the element types of the model
ItemSize == ("uint8" :> 1) @@ ("uint16" :> 2)

\* base64.b64decode on the payloads of the model
B64Decode(payload) ==
    CASE payload = "AQI=" -> <<1, 2>>
      [] payload = "AQ==" -> <<1>>
      [] OTHER -> <<>>

\* np.frombuffer(bytes, dtype): little-endian elements of dtype's size
FromBuffer(bytes, dtype) ==
    LET size == ItemSize[dtype]
    IN  IF Len(bytes) % size # 0 THEN DecodeError("ValueError")
        ELSE Decoded(ArrayValue(dtype,
                [j \in 1..(Len(bytes) \div size) |->
                    IF size = 1 THEN bytes[j]
                    ELSE bytes[2 * j - 1] + 256 * bytes[2 * j]]))

\* json.loads on an object text {"numberType": tag, "base64": payload}, and
\* the decoding of the typed array it denotes
JsonObject(text) ==
    IF Len(text) = 6 /\ text[6] = "}" /\ text[2] = "numberType" /\ text[4] = "base64"
    THEN IF Lower(text[3]) \in DOMAIN ItemSize
         THEN FromBuffer(B64Decode(text[5]), Lower(text[3]))
         ELSE DecodeError("TypeError")
    ELSE IF Len(text) = 2 /\ text[2] = "}" THEN DecodeError("KeyError")
    ELSE DecodeError("JSONDecodeError")

\* json.loads
JsonLoads(text) ==
    IF text # <<>> /\ text[1] = "[" THEN JsonArray(text)
    ELSE IF text # <<>> /\ text[1] = "{" THEN JsonObject(text)
    ELSE DecodeError("JSONDecodeError")

\* the body of the loop over put_values: one value decoded
Decode(value) ==
    IF IsSubstring(FirstChar(value), <<"[", "{">>)
    THEN JsonLoads(value)
    ELSE Decoded(StrValue(value))

\* the encoded values put_channel is called with
PutValues ==
    { <<"1">>,
      <<>>,
      <<"[", "1", ",", "2", "]">>,
      <<"[", "1">>,
      <<"{", "numberType", "UINT8", "base64", "AQI=", "}">> }

(***************************************************************************)
(* put_channel.                                                            *)
(***************************************************************************)
\* `assert pv`: the channel has a write pv
Writable(config) == config.write_pv # None /\ config.write_pv[1] # <<>>

ResolvedAll(ids) == ids

\* the identifiers the first loop resolves: all of them, or those up to and
\* including the first one that is configured read-only
Resolved(ids) ==
    IF \E i \in 1..Len(ids) : ~Writable(plugin_config_id(ids[i]).config)
    THEN SubSeq(ids, 1, CHOOSE i \in 1..Len(ids) :
                            /\ ~Writable(plugin_config_id(ids[i]).config)
                            /\ \A j \in 1..(i - 1) : Writable(plugin_config_id(ids[j]).config))
    ELSE ids

WritePvsReversed(ids) ==
    [i \in 1..Len(ids) |->
        transport_pv(plugin_config_id(ids[Len(ids) + 1 - i]).config.write_pv[1])[2]]

\* pvs: the write pvs without their transport prefix, in the order of ids
WritePvs(ids) ==
    [i \in 1..Len(ids) |-> transport_pv(plugin_config_id(ids[i]).config.write_pv[1])[2]]

\* plugins: the set of the plugins of the identifiers
PluginsOf(ids) == {plugin_config_id(ids[i]).plugin : i \in 1..Len(ids)}

ArityUnchecked(values, pvs) == TRUE

ArityLoose(values, pvs) == Len(values) <= Len(pvs)

\* `assert len(values) == len(pvs)`
ArityOk(values, pvs) == Len(values) = Len(pvs)

AnyTransport(plugins) == Cardinality(plugins) >= 1

\* `assert len(plugins) == 1`
SingleTransport(plugins) == Cardinality(plugins) = 1

\* the configuration lookups made while resolving a list of identifiers
ConfigCalls(ids) == [i \in 1..Len(ids) |-> ConfigCall(ids[i])]

\* the call `plugins.pop().put_channels(pvs, values, timeout)`
PutCall(plugins, pvs, values, timeout) ==
    [op |-> "put_channels", plugin |-> CHOOSE q \in plugins : TRUE,
     pvs |-> pvs, values |-> values, timeout |-> timeout]

PutRaiseEmptyDone(ids, put_values, timeout, err) ==
    [pc |-> IF ids = <<>> /\ put_values = <<>> THEN "done" ELSE "raised",
     ids |-> ids, values |-> put_values, timeout |-> timeout,
     error |-> IF ids = <<>> /\ put_values = <<>> THEN "" ELSE err, result |-> <<>>]

PutRaise(ids, put_values, timeout, err) ==
    [pc |-> "raised", ids |-> ids, values |-> put_values, timeout |-> timeout,
     error |-> err, result |-> <<>>]

\* put_channel up to `await ...put_channels(...)`: the identifiers are resolved
\* and checked writable, the values decoded, the two assertions made and the
\* batched write started
PutStart(ids, put_values, timeout) ==
    /\ put.pc = "idle"
    /\ LET done    == Resolved(ids)
           decoded == [i \in 1..Len(put_values) |-> Decode(put_values[i])]
           values  == [i \in 1..Len(put_values) |-> decoded[i].value]
       IN  IF \E i \in 1..Len(done) : ~Writable(plugin_config_id(done[i]).config)
           THEN /\ put' = PutRaise(ids, put_values, timeout, "read-only")
                /\ plog' = plog \o ConfigCalls(done)
           ELSE IF \E i \in 1..Len(decoded) : ~decoded[i].ok
           THEN /\ put' = PutRaise(ids, put_values, timeout,
                                   decoded[CHOOSE i \in 1..Len(decoded) :
                                       /\ ~decoded[i].ok
                                       /\ \A j \in 1..(i - 1) : decoded[j].ok].error)
                /\ plog' = plog \o ConfigCalls(done)
           ELSE IF ~ArityOk(values, WritePvs(done))
           THEN /\ put' = PutRaise(ids, put_values, timeout, "arity-mismatch")
                /\ plog' = plog \o ConfigCalls(done)
           ELSE IF ~SingleTransport(PluginsOf(done))
           THEN /\ put' = PutRaise(ids, put_values, timeout, "mixed-transport")
                /\ plog' = plog \o ConfigCalls(done)
           ELSE /\ put' = [pc |-> "writing", ids |-> ids, values |-> put_values,
                           timeout |-> timeout, error |-> "", result |-> <<>>]
                /\ plog' = (plog \o ConfigCalls(done))
                             \o <<PutCall(PluginsOf(done), WritePvs(done), values, timeout)>>
    /\ UNCHANGED <<cells, pc, tc, res, live, nsnap, sub>>

NewCellsCached(ids, timeout) ==
    [i \in 1..Len(ids) |->
        LET fresh == GetChannel(ids[i], timeout)
        IN  IF \E k \in 1..Len(cells) : cells[k].id = fresh.id
            THEN cells[CHOOSE k \in 1..Len(cells) : cells[k].id = fresh.id]
            ELSE fresh]

NewCellsReversed(ids, timeout) ==
    [i \in 1..Len(ids) |-> GetChannel(ids[Len(ids) + 1 - i], timeout)]

\* `[GetChannel(channel_id, timeout, store) for channel_id in ids]`
NewCells(ids, timeout) == [i \in 1..Len(ids) |-> GetChannel(ids[i], timeout)]

\* the write call returns: one new cell per identifier is made and returned
PutWriteOk ==
    /\ put.pc = "writing"
    /\ cells' = cells \o NewCells(put.ids, put.timeout)
    /\ plog' = plog \o ConfigCalls(put.ids)
    /\ put' = [put EXCEPT !.pc = "done",
                          !.result = [i \in 1..Len(put.ids) |-> Len(cells) + i]]
    /\ UNCHANGED <<pc, tc, res, live, nsnap, sub>>

WriteErrors == {"WriteRejected"}

PutWriteFailRetried(err) ==
    /\ put.pc = "writing"
    /\ put' = [put EXCEPT !.pc = "raised", !.error = err]
    /\ plog' = Append(plog, plog[Len(plog)])
    /\ UNCHANGED <<cells, pc, tc, res, live, nsnap, sub>>

\* the write call raises (WriteRejected, Timeout): put_channel raises it
PutWriteFail(err) ==
    /\ put.pc = "writing"
    /\ put' = [put EXCEPT !.pc = "raised", !.error = err]
    /\ UNCHANGED <<cells, pc, tc, res, live, nsnap, plog, sub>>

\* the task that reads the cells a mutation returned
Reader == CHOOSE c \in Callers : TRUE

NextPut ==
    \/ \E ids \in SeqsUpTo(Ids, MaxIds), vs \in SeqsUpTo(PutValues, MaxVals), t \in Timeouts :
          PutStart(ids, vs, t)
    \/ PutWriteOk
    \/ \E e \in WriteErrors : PutWriteFail(e)
    \/ \E k \in 1..MaxIds : Call(Reader, k)
    \/ FetchOk(Reader)
    \/ \E e \in FetchErrors : FetchFail(Reader, e)

SpecPut == Init /\ [][NextPut]_vars

\* the scalar value every write of NextOps carries
OneValue == CHOOSE v \in PutValues : Decode(v).ok /\ ~IsSubstring(FirstChar(v), <<"[", "{">>)

\* several operations on one context: get_channel resolver invocations and a
\* put_channel mutation, and the reads of the cells they returned
NextOps ==
    \/ \E id \in QueryIds : Resolve(id, DefaultTimeout)
    \/ \E ids \in SeqsUpTo(QueryIds, MaxIds) :
          PutStart(ids, [i \in 1..Len(ids) |-> OneValue], DefaultTimeout)
    \/ PutWriteOk
    \/ \E c \in Callers, k \in 1..(MaxCells + MaxIds) : Call(c, k)
    \/ \E c \in Callers : FetchOk(c)

SpecOps == Init /\ [][NextOps]_vars

(***************************************************************************)
(* Properties of the resolution cell, checked under SpecCell (C2: under     *)
(* SpecRead, which has the cells of a subscription too).                   *)
(***************************************************************************)
\* the plugin.get_channel calls made for cell k
FetchCount(k) ==
    Cardinality({i \in 1..Len(plog) : plog[i].op = "get_channel" /\ plog[i].cell = k})

CallersOf(k) == {c \in Callers : tc[c] = k}

\* no fetch of cell k has raised and no caller of the cell was cancelled
NoFetchLost(k) == \A c \in CallersOf(k) : pc[c] \notin {"raised", "cancelled"}

\* C1: single-flight. While no fetch of a GetChannel cell has failed, the plugin fetch
\* has been invoked at most once for the cell, exactly once as soon as a
\* caller has returned, and all callers that returned hold the same snapshot
\* (the one stored in the cell), however their calls interleaved.
C1_SingleFlight ==
    \A k \in 1..Len(cells) :
        (cells[k].kind = "GetChannel" /\ NoFetchLost(k)) =>
            /\ FetchCount(k) <= 1
            /\ \A c \in CallersOf(k) :
                  pc[c] = "returned" =>
                      /\ FetchCount(k) = 1
                      /\ res[c].channel = cells[k].channel
                      /\ res[c].channel # None
            /\ \A c, d \in CallersOf(k) :
                  (pc[c] = "returned" /\ pc[d] = "returned") => res[c].channel = res[d].channel

\* all callers called one cell, one fetched and the others queued on the lock
\* during the fetch, and all have returned
C1_Witness ==
    \E k \in 1..Len(cells) :
        /\ CallersOf(k) = Callers
        /\ \A c \in Callers : pc[c] = "returned"
        /\ \E c \in Callers :
              /\ res[c].path = "fetch"
              /\ \A d \in Callers \ {c} : res[d].path = "lock"
        /\ FetchCount(k) = 1

\* C2: populate-once. A cached channel is never overwritten, and a call made
\* on a populated cell returns the cached channel without a plugin call,
\* whatever the live value is by then.
C2_PopulateOnce ==
    [][\A k \in 1..Len(cells) :
          cells[k].channel # None =>
              /\ cells'[k].channel = cells[k].channel
              /\ \A c \in Callers :
                    (pc[c] \in {"idle", "waiting"} /\ pc'[c] \notin {pc[c], "cancelled"}
                     /\ tc'[c] = k)
                        => /\ pc'[c] = "returned"
                           /\ res'[c].channel = cells[k].channel
                           /\ plog' = plog]_vars

\* a caller got, on the fast path, the snapshot another caller had fetched
\* into a GetChannel cell, the live value being another by then, and a
\* SubscribeChannel cell holds the snapshot it was made with, also stale
C2_Witness ==
    /\ \E c \in Callers :
          /\ pc[c] = "returned"
          /\ res[c].path = "fast"
          /\ cells[tc[c]].kind = "GetChannel"
          /\ res[c].channel[1].value # live
          /\ cells[tc[c]].channel = res[c].channel
    /\ \E k \in 1..Len(cells) :
          /\ cells[k].kind = "SubscribeChannel"
          /\ cells[k].channel[1].value # live

\* C3 as stated: when a fetch raises, every caller waiting on the lock of the
\* cell raises with it.
C3_FailureReachesWaiters ==
    [][\A c \in Callers :
          (pc[c] = "fetching" /\ pc'[c] = "raised")
              => \A w \in Callers :
                    (pc[w] = "waiting" /\ tc[w] = tc[c]) => pc'[w] = "raised"]_vars

\* C3 amended: a fetch failure is raised in the caller that made the fetch and
\* in no other; the callers waiting on the lock stay queued, and a waiter that
\* then gets the lock of the still empty cell starts a fetch of its own.
C3_FailureReachesFetcherOnly ==
    [][/\ \A c \in Callers :
            (pc'[c] = "raised" /\ pc[c] # "raised")
                => /\ pc[c] = "fetching"
                   /\ res'[c].error \in FetchErrors
                   /\ \A w \in Callers \ {c} : pc'[w] = pc[w] /\ res'[w] = res[w]
                   /\ cells'[tc[c]].waiters = cells[tc[c]].waiters
       /\ \A w \in Callers :
            (pc[w] = "waiting" /\ pc'[w] \notin {"waiting", "cancelled"}
             /\ cells[tc[w]].channel = None)
                => /\ pc'[w] = "fetching"
                   /\ plog' = Append(plog, FetchCall(tc[w]))]_vars

\* a fetch raised while another caller waited: the fetcher has the failure,
\* the waiter made its own fetch and returned a snapshot
C3_Witness ==
    \E c, w \in Callers :
        /\ c # w /\ tc[c] = tc[w]
        /\ pc[c] = "raised" /\ res[c].error \in FetchErrors
        /\ pc[w] = "returned" /\ res[w].path = "queued-fetch"
        /\ FetchCount(tc[c]) = 2

\* C4: no negative caching. A fetch that raises leaves the cell empty and its
\* lock free, a call that then finds the cell empty with the lock free (a new
\* call, or a waiter that gets the lock) invokes the plugin fetch again, and a
\* fetch that succeeds populates the cell.
C4_NoNegativeCaching ==
    [][/\ \A c \in Callers :
            (pc[c] = "fetching" /\ pc'[c] = "raised")
                => cells'[tc[c]].channel = None /\ cells'[tc[c]].holder = 0
       /\ \A c \in Callers :
            (pc[c] \in {"idle", "waiting"} /\ pc'[c] \notin {pc[c], "cancelled"}
             /\ cells[tc'[c]].channel = None
             /\ (pc[c] = "idle" =>
                    cells[tc'[c]].holder = 0 /\ cells[tc'[c]].waiters = <<>>))
                => /\ pc'[c] = "fetching"
                   /\ plog' = Append(plog, FetchCall(tc'[c]))
       /\ \A c \in Callers :
            (pc[c] = "fetching" /\ pc'[c] = "returned")
                => /\ cells'[tc[c]].channel # None
                   /\ res'[c].channel = cells'[tc[c]].channel]_vars

\* after a fetch of the cell raised, a call made later (one that did not wait
\* for the lock) fetched again and populated the cell
C4_Witness ==
    \E c, d \in Callers :
        /\ c # d /\ tc[c] = tc[d]
        /\ pc[c] = "raised" /\ res[c].error \in FetchErrors
        /\ pc[d] = "returned" /\ res[d].path = "fetch"
        /\ cells[tc[c]].channel = res[d].channel
        /\ FetchCount(tc[c]) = 2

(***************************************************************************)
(* Properties of put_channel, checked under SpecPut.                       *)
(***************************************************************************)
\* the batch the invocation was given
BatchConfig(i) == plugin_config_id(put.ids[i]).config

BatchPlugins == {plugin_config_id(put.ids[i]).plugin : i \in 1..Len(put.ids)}

AllWritable == \A i \in 1..Len(put.ids) : BatchConfig(i).write_pv # None

AllDecode == \A i \in 1..Len(put.values) : Decode(put.values[i]).ok

\* the error of the first value that does not decode
FirstDecodeError ==
    Decode(put.values[CHOOSE i \in 1..Len(put.values) :
                          /\ ~Decode(put.values[i]).ok
                          /\ \A j \in 1..(i - 1) : Decode(put.values[j]).ok]).error

\* the positions of the put_channels calls in the log of plugin calls
WriteCalls == {i \in 1..Len(plog) : plog[i].op = "put_channels"}

FetchCalls == {i \in 1..Len(plog) : plog[i].op = "get_channel"}

\* C5 as stated: a batch over two or more plugins fails with the
\* mixed-transport error and makes no write call.
C5_MixedBatchFailsMixed ==
    (put.pc # "idle" /\ Cardinality(BatchPlugins) >= 2)
        => put.pc = "raised" /\ put.error = "mixed-transport" /\ WriteCalls = {}

\* C5 amended: a batch over two or more plugins fails and makes no write call;
\* the error is the mixed-transport error when every identifier is writable,
\* every value decodes and there are as many values as identifiers, and
\* otherwise the error of the check that fails first: read-only, then the
\* decoding error, then arity.
C5_MixedBatchFails ==
    (put.pc # "idle" /\ Cardinality(BatchPlugins) >= 2)
        => /\ put.pc = "raised"
           /\ WriteCalls = {}
           /\ put.error = IF ~AllWritable THEN "read-only"
                          ELSE IF ~AllDecode THEN FirstDecodeError
                          ELSE IF Len(put.values) # Len(put.ids) THEN "arity-mismatch"
                          ELSE "mixed-transport"

\* a batch of writable channels of two plugins, with decodable values, one per
\* identifier, has failed with the mixed-transport error
C5_Witness ==
    /\ put.pc = "raised" /\ put.error = "mixed-transport"
    /\ Cardinality(BatchPlugins) = 2
    /\ Len(put.values) = Len(put.ids)
    /\ WriteCalls = {}

\* the first identifier of the batch that is read-only
FirstReadOnly ==
    CHOOSE i \in 1..Len(put.ids) :
        /\ BatchConfig(i).write_pv = None
        /\ \A j \in 1..(i - 1) : BatchConfig(j).write_pv # None

C7_ArityMismatchFailsArity ==
    (/\ put.pc # "idle" /\ AllWritable /\ Cardinality(BatchPlugins) = 1
     /\ Len(put.values) # Len(put.ids))
        => put.pc = "raised" /\ put.error = "arity-mismatch" /\ WriteCalls = {}

\* C7 amended: such a call fails and makes no write call; the error is the
\* arity error unless the decoding of one of the values raised, and then it is
\* the error of the first such value.
C7_ArityMismatchFails ==
    (/\ put.pc # "idle" /\ AllWritable /\ Cardinality(BatchPlugins) = 1
     /\ Len(put.values) # Len(put.ids))
        => /\ put.pc = "raised"
           /\ WriteCalls = {}
           /\ put.error = IF AllDecode THEN "arity-mismatch" ELSE FirstDecodeError

\* two writable identifiers of one plugin and one decodable value: arity error
C7_Witness ==
    /\ put.pc = "raised" /\ put.error = "arity-mismatch"
    /\ Len(put.ids) = 2 /\ Len(put.values) = 1
    /\ AllWritable /\ Cardinality(BatchPlugins) = 1
    /\ WriteCalls = {}

\* the batch passes every check of put_channel
Valid ==
    /\ AllWritable
    /\ AllDecode
    /\ Len(put.values) = Len(put.ids)
    /\ Cardinality(BatchPlugins) = 1

\* C8: a call that passes validation makes exactly one put_channels call, on
\* the plugin common to the identifiers, with the write pv of the i-th
\* identifier (transport prefix removed) at position i, the decoding of the
\* i-th value at position i, and the timeout of the caller; a call that does
\* not pass makes none.
C8_OneBatchedWrite ==
    put.pc # "idle" =>
        IF Valid
        THEN /\ put.pc \in {"writing", "done"} \/ put.error \in WriteErrors
             /\ Cardinality(WriteCalls) = 1
             /\ \A w \in WriteCalls :
                  /\ BatchPlugins = {plog[w].plugin}
                  /\ Len(plog[w].pvs) = Len(put.ids)
                  /\ \A i \in 1..Len(put.ids) :
                       plog[w].pvs[i] = transport_pv(BatchConfig(i).write_pv[1])[2]
                  /\ Len(plog[w].values) = Len(put.values)
                  /\ \A i \in 1..Len(put.values) :
                       plog[w].values[i] = Decode(put.values[i]).value
                  /\ plog[w].timeout = put.timeout
        ELSE WriteCalls = {}

\* a write of two different values to two channels with different write pvs,
\* with the timeout that is not the default
C8_Witness ==
    /\ put.pc = "writing"
    /\ Len(put.ids) = 2 /\ put.ids[1] # put.ids[2]
    /\ put.values[1] # put.values[2]
    /\ put.timeout # DefaultTimeout
    /\ \E w \in WriteCalls : plog[w].pvs[1] # plog[w].pvs[2]

\* C9: put_channel makes no plugin fetch, and no fetch is made before the
\* write call has returned; on success the result is one new GetChannel cell
\* per identifier, in the order of the identifiers, and a returned cell has a
\* cached channel only once a fetch has been made through it, after the write.
C9_LazyReadBack ==
    /\ put.pc # "done" => FetchCalls = {} /\ cells = <<>> /\ put.result = <<>>
    /\ put.pc = "done" =>
         /\ Len(put.result) = Len(put.ids)
         /\ \A i, j \in 1..Len(put.result) : i < j => put.result[i] < put.result[j]
         /\ \A i \in 1..Len(put.result) :
              LET k == put.result[i]
              IN  /\ k \in 1..Len(cells)
                  /\ cells[k].kind = "GetChannel"
                  /\ cells[k].id = transport_pv(put.ids[i])[2]
                  /\ cells[k].plugin = plugin_config_id(put.ids[i]).plugin
                  /\ cells[k].timeout = put.timeout
                  /\ cells[k].channel # None => FetchCount(k) >= 1
         /\ \A f \in FetchCalls : \A w \in WriteCalls : w < f

\* after a write to two channels the second returned cell has been read back
\* and the first is still empty
C9_Witness ==
    /\ put.pc = "done"
    /\ Len(put.result) = 2 /\ put.ids[1] # put.ids[2]
    /\ cells[put.result[1]].channel = None
    /\ cells[put.result[2]].channel # None
    /\ pc[Reader] = "returned"

(***************************************************************************)
(* Properties of subscribe_channel, checked under SpecSub.                 *)
(***************************************************************************)
\* C10: once the subscription is closed, whatever its state was, no plugin
\* stream is left open, and the cleanup of the stream it had opened has been
\* invoked exactly once.
C10_ClosePromptOnce ==
    sub.pc = "closed" =>
        /\ sub.stream # "open"
        /\ sub.closes = IF sub.stream = "none" THEN 0 ELSE 1

\* the calls of one kind in the log of plugin calls
CallsOf(op) == {i \in 1..Len(plog) : plog[i].op = op}

\* C11: the identifier is resolved once and the plugin stream opened once;
\* the n-th cell the generator yields is a SubscribeChannel cell that holds
\* the n-th snapshot the plugin stream emitted, so that every emitted
\* snapshot is yielded once, in the order of emission.
C11_RelayInOrder ==
    /\ Cardinality(CallsOf("get_channel_config")) <= 1
    /\ Cardinality(CallsOf("subscribe_channel")) <= 1
    /\ sub.emitted > 0 => /\ Cardinality(CallsOf("get_channel_config")) = 1
                          /\ Cardinality(CallsOf("subscribe_channel")) = 1
    /\ Len(sub.yielded) = sub.emitted
    /\ sub.emitted = nsnap
    /\ \A n \in 1..Len(sub.yielded) :
         LET k == sub.yielded[n]
         IN  /\ k \in 1..Len(cells)
             /\ cells[k].kind = "SubscribeChannel"
             /\ cells[k].id = transport_pv(sub.id)[2]
             /\ cells[k].channel # None
             /\ cells[k].channel[1].serial = n
             /\ cells[k].channel[1].pv = sub.pv
    /\ \A n, m \in 1..Len(sub.yielded) : n < m => sub.yielded[n] < sub.yielded[m]

\* two snapshots with different values were emitted and both were yielded
C11_Witness ==
    /\ Len(sub.yielded) = 2
    /\ sub.emitted = 2
    /\ cells[sub.yielded[1]].channel[1].value # cells[sub.yielded[2]].channel[1].value

\* the name `read_pv or write_pv` of a config, its transport prefix stripped
ReadOrWritePv(config) == transport_pv(Or(config.read_pv, config.write_pv)[1])[2]

\* C12: a GetChannel cell and a started subscription both hand the plugin
\* `read_pv or write_pv` with its transport prefix stripped; on a config
\* with a write_pv and no read_pv both use the write_pv.
C12_ReadOrWritePv ==
    /\ \A k \in 1..Len(cells) :
         cells[k].kind = "GetChannel" => cells[k].pv = ReadOrWritePv(cells[k].config)
    /\ sub.plugin # "" =>
         LET config == plugin_config_id(sub.id).config
         IN  Or(config.read_pv, config.write_pv) # None =>
               /\ sub.pc # "raised"
               /\ sub.pv = ReadOrWritePv(config)

\* the value has a first character and it opens a JSON array or object
OpensJson(value) == value # <<>> /\ value[1] \in {"[", "{"}

\* C13: a value is parsed as JSON exactly when its first character is '['
\* or '{'; every other value, the empty string included, reaches the plugin
\* unchanged as a string, so a batch whose bracketed values all parse never
\* fails in decoding.
C13_JsonIffBracket ==
    (put.pc # "idle" /\ AllWritable) =>
      /\ (\A i \in 1..Len(put.values) :
            OpensJson(put.values[i]) => JsonLoads(put.values[i]).ok)
         => put.error \in {"", "arity-mismatch", "mixed-transport"} \cup WriteErrors
      /\ \A w \in WriteCalls : \A i \in 1..Len(put.values) :
           plog[w].values[i] = IF OpensJson(put.values[i])
                               THEN JsonLoads(put.values[i]).value
                               ELSE StrValue(put.values[i])

\* C14: an operation never hands out a cell of another operation: the cells
\* a resolver invocation or a mutation creates are appended new, empty and
\* unlocked, the cells a mutation returns are the ones it just created, no
\* existing cell is replaced, and an empty cell becomes populated only by
\* the fetch of a caller on that very cell.
C14_NoCrossRequestCaching ==
    [][/\ Len(cells') >= Len(cells)
       /\ \A k \in 1..Len(cells) : cells'[k].id = cells[k].id
       /\ \A k \in (Len(cells) + 1)..Len(cells') :
            /\ cells'[k].kind = "GetChannel"
            /\ cells'[k].channel = None
            /\ cells'[k].holder = 0
            /\ cells'[k].waiters = <<>>
       /\ put'.result # put.result =>
            /\ Len(put'.result) = Len(put.ids)
            /\ \A i \in 1..Len(put'.result) : put'.result[i] = Len(cells) + i
       /\ \A k \in 1..Len(cells) :
            (cells[k].channel = None /\ cells'[k].channel # None) =>
              /\ \E c \in Callers : pc[c] = "fetching" /\ tc[c] = k /\ pc'[c] = "returned"
              /\ \E i \in FetchCalls : plog[i].cell = k
      ]_vars

\* two cells of one identifier, made by a resolver invocation and by a
\* mutation, each populated by a fetch of its own
C14_Witness ==
    /\ Len(cells) >= 2
    /\ put.pc = "done"
    /\ \E k \in 1..Len(cells), i \in 1..Len(put.result) :
         /\ k \notin {put.result[j] : j \in 1..Len(put.result)}
         /\ cells[k].id = cells[put.result[i]].id
         /\ cells[k].channel # None
         /\ cells[put.result[i]].channel # None
         /\ cells[k].channel[1].serial < cells[put.result[i]].channel[1].serial
         /\ FetchCount(k) = 1
         /\ FetchCount(put.result[i]) = 1

\* the errors put_channel raises before it writes, and the outcomes of a call
\* that passed every check
NoCheckError == {""} \cup WriteErrors

\* C15 as stated: the error of a call is that of the first violated check in
\* the order read-only, single transport, decoding, arity.
C15_ErrorInSpecOrder ==
    put.pc # "idle" =>
      IF ~AllWritable THEN put.error = "read-only"
      ELSE IF Cardinality(BatchPlugins) # 1 THEN put.error = "mixed-transport"
      ELSE IF ~AllDecode THEN put.error = FirstDecodeError
      ELSE IF Len(put.values) # Len(put.ids) THEN put.error = "arity-mismatch"
      ELSE put.error \in NoCheckError

\* C15 amended: the error of a call is that of the first violated check in
\* the order read-only, decoding, arity, single transport, and a call that
\* violates one of them makes no write call.
C15_ErrorInCodeOrder ==
    put.pc # "idle" =>
      IF ~AllWritable THEN put.error = "read-only" /\ WriteCalls = {}
      ELSE IF ~AllDecode THEN put.error = FirstDecodeError /\ WriteCalls = {}
      ELSE IF Len(put.values) # Len(put.ids)
           THEN put.error = "arity-mismatch" /\ WriteCalls = {}
      ELSE IF Cardinality(BatchPlugins) # 1
           THEN put.error = "mixed-transport" /\ WriteCalls = {}
      ELSE put.error \in NoCheckError

\* a batch of writable channels of two plugins with one decodable value has
\* failed with the arity error
C15_Witness ==
    /\ put.pc = "raised" /\ put.error = "arity-mismatch"
    /\ Cardinality(BatchPlugins) = 2
    /\ Len(put.ids) = 2 /\ Len(put.values) = 1
    /\ AllWritable /\ AllDecode

\* C16: when the write call has failed, it was made once, the call has
\* raised that one failure, it returned no cell and made none: no cell exists
\* and the identifiers were resolved for the write only.
C16_WriteFailureIsFinal ==
    (put.pc = "raised" /\ put.error \in WriteErrors)
        => /\ Cardinality(WriteCalls) = 1
           /\ put.result = <<>>
           /\ cells = <<>>
           /\ Cardinality(CallsOf("get_channel_config")) = Len(put.ids)
           /\ FetchCalls = {}

\* the write of a batch of two identifiers has failed
C16_Witness ==
    /\ put.pc = "raised" /\ put.error \in WriteErrors
    /\ Len(put.ids) = 2
    /\ Cardinality(WriteCalls) = 1
    /\ plog[CHOOSE w \in WriteCalls : TRUE].pvs = WritePvs(put.ids)

\* the callers whose plugin fetch of cell k is in flight
InFlight(k) == {c \in Callers : pc[c] = "fetching" /\ tc[c] = k}

\* C17: at most one fetch of a cell is in flight, made by the caller that
\* holds the cell's lock, on a cell that is still empty; and every fetch of
\* the cell but one was made after a fetch of that cell had ended in a
\* failure (an exception of the plugin or the cancellation of the caller).
C17_OneFetchInFlight ==
    \A k \in 1..Len(cells) :
        /\ Cardinality(InFlight(k)) <= 1
        /\ \A c \in InFlight(k) : cells[k].holder = c /\ cells[k].channel = None
        /\ cells[k].holder # 0 => InFlight(k) = {cells[k].holder}
        /\ FetchCount(k) <= 1 + Cardinality({c \in CallersOf(k) :
                                               pc[c] \in {"raised", "cancelled"}})
        /\ FetchCount(k) >= Cardinality(InFlight(k))

\* a second fetch of a cell is in flight after the first one raised
C17_Witness ==
    \E c, d \in Callers :
        /\ c # d /\ tc[c] = tc[d]
        /\ pc[c] = "raised" /\ res[c].error \in FetchErrors
        /\ InFlight(tc[d]) = {d}
        /\ FetchCount(tc[d]) = 2

\* the call of caller c is suspended in get_channel
Suspended(c) == pc[c] \in {"waiting", "fetching"}

\* the call of caller c has returned a snapshot or raised
Ended(c) == pc[c] \in {"returned", "raised", "cancelled"}

\* C18: under a fair event loop and plugin fetches that end, every call of
\* get_channel that is suspended, on the lock or in the fetch, eventually
\* returns a snapshot or raises.
C18_EveryCallEnds == \A c \in Callers : Suspended(c) ~> Ended(c)

\* a caller was cancelled in mid-fetch and the caller that was queued behind
\* it on the lock then made its own fetch and returned
C18_Witness ==
    \E c, d \in Callers :
        /\ c # d /\ tc[c] = tc[d]
        /\ pc[c] = "cancelled"
        /\ pc[d] = "returned" /\ res[d].path = "queued-fetch"
        /\ FetchCount(tc[c]) = 2
        /\ \A e \in CallersOf(tc[c]) : pc[e] # "raised"

\* C19: a call with no identifier and no value fails with the error of the
\* plugin-count check, the one a mixed-transport batch gets, makes no plugin
\* call and returns no list of cells.
C19_EmptyBatchFails ==
    (put.pc # "idle" /\ put.ids = <<>> /\ put.values = <<>>)
        => /\ put.pc = "raised"
           /\ put.error = "mixed-transport"
           /\ plog = <<>>
           /\ put.result = <<>>
           /\ cells = <<>>

\* the empty batch has been put and has failed on the plugin-count check
C19_Witness ==
    /\ put.pc = "raised" /\ put.error = "mixed-transport"
    /\ put.ids = <<>> /\ put.values = <<>>
    /\ BatchPlugins = {}

====
